---- MODULE Spec2Model ----
(***************************************************************************)
(* NetworkDeviceTestFramework (src/network_test_framework.py): one         *)
(* framework instance with its device registry, its list of check outcomes *)
(* (test_results) and its list of defects.  The four checks, create_defect,*)
(* determine_severity and run_test_suite are translated from the code.     *)
(*                                                                         *)
(* Python dicts are records, lists are sequences, str is a TLA+ string     *)
(* (Len, SubSeq and \o act on its characters).  Floats with one decimal    *)
(* (15.2 %, 80.0 %) are integers counting tenths.  The wall-clock fields   *)
(* 'duration', 'timestamp' and 'created_date' are left out of the records: *)
(* no branch of the code reads them.  Log calls are not modelled.          *)
(***************************************************************************)
EXTENDS Integers, Sequences, FiniteSets, TLC

VARIABLES
    device_configs,  \* self.device_configs: device name -> configuration
    test_results,    \* self.test_results: outcomes, in order of execution
    defects,         \* self.defects: defects, in order of creation
    pc,              \* where run_test_suite stands: "idle" outside a run
    run,             \* the run in progress: its device list and position
    call,            \* history: the last check invocation and what it was given
    threads,         \* callers sharing the instance: each one's position
    reports,         \* the reports returned since the state last changed
    config_file      \* the config_file argument the instance was built with

vars == <<device_configs, test_results, defects, pc, run, call, threads,
          reports, config_file>>

(***************************************************************************)
(* Bounds of the model.                                                    *)
(***************************************************************************)
MaxResults == 8   \* outcomes recorded by one instance
MaxRunLen == 2    \* device names in one run_test_suite call
MaxDirect == 1    \* outcomes up to which checks are also called directly
NumThreads == 2   \* threads that share one instance in SpecConcurrent
MaxConcurrentResults == 3   \* outcomes recorded in SpecConcurrent
MaxChecks == 2    \* outcomes recorded in SpecChecks
MaxCreated == 2   \* defects created in SpecSeverity

(***************************************************************************)
(* Strings: str.lower() and the substring test `sub in s`.                 *)
(***************************************************************************)
None == "<None>"

UpperToLower ==
    [A |-> "a", B |-> "b", C |-> "c", D |-> "d", E |-> "e", F |-> "f",
     G |-> "g", H |-> "h", I |-> "i", J |-> "j", K |-> "k", L |-> "l",
     M |-> "m", N |-> "n", O |-> "o", P |-> "p", Q |-> "q", R |-> "r",
     S |-> "s", T |-> "t", U |-> "u", V |-> "v", W |-> "w", X |-> "x",
     Y |-> "y", Z |-> "z"]

LowerChar(c) == IF c \in DOMAIN UpperToLower THEN UpperToLower[c] ELSE c

\* str.lower(): lowered[i] is the first i characters of s in lower case.
lower(s) ==
    LET lowered[i \in 0..Len(s)] ==
            IF i = 0 THEN "" ELSE lowered[i - 1] \o LowerChar(SubSeq(s, i, i))
    IN lowered[Len(s)]

\* Python's `sub in s` on two strings (t is the value of s, computed once).
Contains(sub, s) ==
    \E t \in {s} :
        \E i \in 1..(Len(t) - Len(sub) + 1) : SubSeq(t, i, i + Len(sub) - 1) = sub

RECURSIVE Zeros(_)
Zeros(n) == IF n <= 0 THEN "" ELSE "0" \o Zeros(n - 1)

\* The format specification {n:04d}: decimal, left-padded with zeros to width 4.
Format04d(n) == Zeros(4 - Len(ToString(n))) \o ToString(n)

\* str() of a float that has one decimal, given in tenths: 152 -> "15.2".
FormatTenths(v) == ToString(v \div 10) \o "." \o ToString(v % 10)

(***************************************************************************)
(* The registry.                                                           *)
(***************************************************************************)
default_devices ==
    ("optical_device_1" :>
        [ip |-> "192.168.1.100", type |-> "optical_transponder",
         management_port |-> 8080, expected_interfaces |-> 4,
         protocols |-> <<"REST", "SNMP", "CLI">>])
    @@
    ("microwave_device_1" :>
        [ip |-> "192.168.1.101", type |-> "microwave_radio",
         management_port |-> 443, expected_interfaces |-> 2,
         protocols |-> <<"REST", "NETCONF">>])

\* dict.keys() in insertion order, as run_test_suite(None) lists them.
default_order == <<"optical_device_1", "microwave_device_1">>

\* The configuration files of the model: what open() finds under a path and
\* what json.load() makes of the text.  A path that is not listed does not
\* exist; open() raises for it and for a file that cannot be read, and
\* json.load() raises for a text that is not JSON.
lab_devices ==
    "lab_router_1" :>
        [ip |-> "10.0.0.5", type |-> "router", management_port |-> 8443,
         expected_interfaces |-> 1, protocols |-> <<"REST">>]

Files ==
    ("lab.json" :> [readable |-> TRUE, is_json |-> TRUE, value |-> lab_devices])
    @@
    ("truncated.json" :> [readable |-> TRUE, is_json |-> FALSE, value |-> <<>>])
    @@
    ("locked.json" :> [readable |-> FALSE, is_json |-> TRUE, value |-> lab_devices])

\* The config_file arguments of the constructor: none, the empty path, a file
\* that does not exist, and the three files.
ConfigArguments == {None, "", "missing.json"} \cup DOMAIN Files

\* Mutation: the except branch logs the error and leaves the registry empty.
load_config_no_fallback(path) ==
    IF path \in DOMAIN Files
       /\ Files[path].readable
       /\ Files[path].is_json
    THEN Files[path].value
    ELSE <<>>

\* load_config: the registry after the call.
load_config(path) ==
    IF path \in DOMAIN Files
       /\ Files[path].readable
       /\ Files[path].is_json
    THEN Files[path].value
    ELSE default_devices

\* if config_file: self.load_config(config_file)
\* else: self.device_configs = self.default_devices
device_configs_after_init(path) ==
    IF path # None /\ path # ""
    THEN load_config(path)
    ELSE default_devices

\* dict.keys() of a registry, in insertion order.
key_order == default_order \o <<"lab_router_1">>

\* A name no configuration holds.
UnknownDevice == "ghost_device"

DeviceNames == {"optical_device_1", "microwave_device_1", UnknownDevice}

\* self.device_configs.get(name) is not None (and not an empty dict).
Registered(name) == name \in DOMAIN device_configs

(***************************************************************************)
(* Defects.                                                                *)
(***************************************************************************)
\* Mutation: the interface rule is tried before the connectivity rule.
determine_severity_interface_first(category, description) ==
    IF Contains("interface", lower(category))
       /\ Contains("down", lower(description))
    THEN "MAJOR"
    ELSE IF Contains("connectivity", lower(category))
            \/ Contains("unreachable", lower(description))
    THEN "CRITICAL"
    ELSE "MINOR"

determine_severity(category, description) ==
    IF Contains("connectivity", lower(category))
       \/ Contains("unreachable", lower(description))
    THEN "CRITICAL"
    ELSE IF Contains("interface", lower(category))
            /\ Contains("down", lower(description))
    THEN "MAJOR"
    ELSE IF Contains("high", lower(description))
            /\ (Contains("cpu", lower(description))
                \/ Contains("memory", lower(description)))
    THEN "MINOR"
    ELSE "MINOR"

\* Mutation: the count is used as it is, without the + 1.
defect_id_from_zero(n) == "DEF-" \o Format04d(n)

\* The identifier create_defect gives when it reads a list of n defects.
defect_id_for(n) == "DEF-" \o Format04d(n + 1)

\* The record create_defect builds, given the identifier it computed.
new_defect(defect_id, device_name, category, description) ==
    [defect_id |-> defect_id,
     device |-> device_name,
     category |-> category,
     description |-> description,
     severity |-> determine_severity(category, description),
     status |-> "OPEN",
     assigned_to |-> "verification_team"]

\* Mutation: the list is assigned, self.defects = [defect], not appended to.
create_defect_replacing(defs, device_name, category, description) ==
    <<new_defect(defect_id_for(Len(defs)), device_name, category, description)>>

\* create_defect run without interruption: the list after the call.
create_defect(defs, device_name, category, description) ==
    Append(defs, new_defect(defect_id_for(Len(defs)), device_name,
                            category, description))

\* Mutation: an issue already tracked for the device is not filed again.
RECURSIVE create_defects_deduplicating(_, _, _, _)
create_defects_deduplicating(defs, device_name, category, issues) ==
    IF issues = <<>> THEN defs
    ELSE create_defects_deduplicating(
            IF \E k \in 1..Len(defs) :
                  /\ defs[k].device = device_name
                  /\ defs[k].category = category
                  /\ defs[k].description = Head(issues)
            THEN defs
            ELSE create_defect(defs, device_name, category, Head(issues)),
            device_name, category, Tail(issues))

\* for issue in issues: self.create_defect(device_name, category, issue)
RECURSIVE create_defects(_, _, _, _)
create_defects(defs, device_name, category, issues) ==
    IF issues = <<>> THEN defs
    ELSE create_defects(create_defect(defs, device_name, category, Head(issues)),
                        device_name, category, Tail(issues))

(***************************************************************************)
(* The adapter.  What a device answers is an input of the check: either    *)
(* the call raises (raises, with the exception's text) or it returns data. *)
(* simulate_rest_call answers for an unregistered name itself, with an     *)
(* error payload, before any device is asked.                              *)
(***************************************************************************)
Raise(msg) == [raises |-> TRUE, message |-> msg, data |-> <<>>]
Return(d) == [raises |-> FALSE, message |-> "", data |-> d]

\* dict.get(key, default)
Get(d, key, default) == IF key \in DOMAIN d THEN d[key] ELSE default

simulate_rest_call(device_name, ans) ==
    IF ~Registered(device_name) THEN [error |-> "Device not found"]
    ELSE ans.data

\* The payloads the simulator of the repository returns for a device with
\* n expected interfaces (endpoints /system/status, /interfaces, /alarms).
simulated_status(n) ==
    [status |-> "operational", uptime |-> "72:15:30", cpu_usage |-> 152,
     memory_usage |-> 458, temperature |-> 352, interfaces_up |-> n]

simulated_interfaces(n) ==
    [interfaces |->
        [i \in 1..n |->
            [name |-> "eth" \o ToString(i - 1),
             status |-> IF i - 1 < n - 1 THEN "up" ELSE "down",
             speed |-> "10Gbps", duplex |-> "full"]]]

simulated_alarms(n) ==
    [active_alarms |->
        IF n > 3
        THEN <<[severity |-> "minor", message |-> "Interface eth3 down",
                timestamp |-> "2025-09-26T10:30:00Z"]>>
        ELSE <<>>]

(***************************************************************************)
(* The checks.  Each is the whole method: it appends one outcome to        *)
(* test_results and, where the code does, defects to defects.              *)
(***************************************************************************)
TestName(check, device_name) == check \o "_test_" \o device_name

\* Mutation: the two branches of the conditional are exchanged.
status_of_inverted(test_passed) == IF test_passed THEN "FAILED" ELSE "PASSED"

\* 'PASSED' if test_passed else 'FAILED'
status_of(test_passed) == IF test_passed THEN "PASSED" ELSE "FAILED"

\* Mutation: the except branch reports FAILED.
error_result_failed(test_name, message) ==
    [test_name |-> test_name, status |-> "FAILED", error |-> message]

\* The except branch shared by the four checks.
error_result(test_name, message) ==
    [test_name |-> test_name, status |-> "ERROR", error |-> message]

\* Mutation: `or` in place of `and`.
connectivity_ok_either(response_time, port_open) == response_time > 0 \/ port_open

\* if response_time > 0 and port_open
connectivity_ok(response_time, port_open) == response_time > 0 /\ port_open

test_device_connectivity(device_name, ans) ==
    LET test_name == TestName("connectivity", device_name) IN
    IF ~Registered(device_name)
    THEN /\ test_results' = Append(test_results,
                [test_name |-> test_name, status |-> "FAILED",
                 error |-> "Device configuration not found", duration |-> 0])
         /\ defects' = defects
    ELSE IF ans.raises
    THEN /\ test_results' = Append(test_results, error_result(test_name, ans.message))
         /\ defects' = defects
    ELSE LET response_time == ans.data.response_time
             port_open == ans.data.port_open
             ok == connectivity_ok(response_time, port_open)
             error == IF ok THEN None ELSE "Connectivity failed - device unreachable"
         IN /\ defects' = IF ok THEN defects
                          ELSE create_defect(defects, device_name, "connectivity", error)
            /\ test_results' = Append(test_results,
                   [test_name |-> test_name, device |-> device_name,
                    status |-> status_of(ok),
                    response_time_ms |-> response_time,
                    port_accessible |-> port_open, error |-> error])

cpu_usage_threshold == 800      \* 80.0 %
memory_usage_threshold == 900   \* 90.0 %
temperature_threshold == 600    \* 60.0 degrees

\* Mutation: >= in place of >.
at_or_above(value, threshold) == value >= threshold

\* status_data.get(metric, 0) > criteria[threshold]
exceeds(value, threshold) == value > threshold

\* The body of the status check between the adapter call and the result.
\* The degree sign of the temperature issue is written "deg".
status_evaluation(status_data) ==
    IF "error" \in DOMAIN status_data
    THEN [test_passed |-> FALSE, issues |-> <<status_data.error>>]
    ELSE LET cpu == exceeds(Get(status_data, "cpu_usage", 0), cpu_usage_threshold)
             mem == exceeds(Get(status_data, "memory_usage", 0),
                            memory_usage_threshold)
             tmp == exceeds(Get(status_data, "temperature", 0),
                            temperature_threshold)
         IN [test_passed |-> ~cpu /\ ~mem /\ ~tmp,
             issues |->
                (IF cpu THEN <<"High CPU usage: "
                               \o FormatTenths(status_data.cpu_usage) \o "%">>
                 ELSE <<>>)
                \o (IF mem THEN <<"High memory usage: "
                                  \o FormatTenths(status_data.memory_usage) \o "%">>
                    ELSE <<>>)
                \o (IF tmp THEN <<"High temperature: "
                                  \o FormatTenths(status_data.temperature) \o "degC">>
                    ELSE <<>>)]

test_device_status(device_name, ans) ==
    LET test_name == TestName("status", device_name) IN
    IF Registered(device_name) /\ ans.raises
    THEN /\ test_results' = Append(test_results, error_result(test_name, ans.message))
         /\ defects' = defects
    ELSE LET status_data == simulate_rest_call(device_name, ans)
             ev == status_evaluation(status_data)
         IN /\ defects' = IF ev.test_passed THEN defects
                          ELSE create_defects(defects, device_name, "performance", ev.issues)
            /\ test_results' = Append(test_results,
                   [test_name |-> test_name, device |-> device_name,
                    status |-> status_of(ev.test_passed),
                    system_data |-> status_data, issues |-> ev.issues])

\* Mutation: only the status 'down' counts, == 'down' in place of != 'up'.
IsDown(iface) == iface.status = "down"

\* [iface for iface in interfaces if iface['status'] != 'up']
IsNotUp(iface) == iface.status # "up"

RECURSIVE down_issues(_)
down_issues(down_interfaces) ==
    IF down_interfaces = <<>> THEN <<>>
    ELSE <<"Interface " \o Head(down_interfaces).name \o " is "
           \o Head(down_interfaces).status>>
         \o down_issues(Tail(down_interfaces))

\* The body of the interface check between the adapter call and the result.
interface_evaluation(interface_data, expected_interfaces) ==
    IF "error" \in DOMAIN interface_data
    THEN [test_passed |-> FALSE, issues |-> <<interface_data.error>>]
    ELSE LET interfaces == Get(interface_data, "interfaces", <<>>)
             mismatch == Len(interfaces) # expected_interfaces
             down_interfaces == SelectSeq(interfaces, IsNotUp)
         IN [test_passed |-> ~mismatch /\ down_interfaces = <<>>,
             issues |->
                (IF mismatch
                 THEN <<"Expected " \o ToString(expected_interfaces)
                        \o " interfaces, found " \o ToString(Len(interfaces))>>
                 ELSE <<>>)
                \o down_issues(down_interfaces)]

\* self.device_configs.get(device_name, {}).get('expected_interfaces', 0)
expected_interfaces_of(device_name) ==
    IF Registered(device_name)
    THEN Get(device_configs[device_name], "expected_interfaces", 0)
    ELSE 0

test_interface_status(device_name, ans) ==
    LET test_name == TestName("interface", device_name) IN
    IF Registered(device_name) /\ ans.raises
    THEN /\ test_results' = Append(test_results, error_result(test_name, ans.message))
         /\ defects' = defects
    ELSE LET interface_data == simulate_rest_call(device_name, ans)
             ev == interface_evaluation(interface_data,
                                        expected_interfaces_of(device_name))
         IN /\ defects' = IF ev.test_passed THEN defects
                          ELSE create_defects(defects, device_name, "interface", ev.issues)
            /\ test_results' = Append(test_results,
                   [test_name |-> test_name, device |-> device_name,
                    status |-> status_of(ev.test_passed),
                    interface_data |-> interface_data, issues |-> ev.issues])

\* Mutation: the check fails when an alarm is active.
alarm_status_gating(active_alarms) ==
    IF active_alarms = <<>> THEN "PASSED" ELSE "FAILED"

\* 'status': 'PASSED',  # Always pass for monitoring
alarm_status(active_alarms) == "PASSED"

\* An alarm the logging loop cannot read: alarm['message'] raises KeyError.
LacksMessage(alarm) == "message" \notin DOMAIN alarm

test_alarm_monitoring(device_name, ans) ==
    LET test_name == TestName("alarm", device_name) IN
    IF Registered(device_name) /\ ans.raises
    THEN /\ test_results' = Append(test_results, error_result(test_name, ans.message))
         /\ defects' = defects
    ELSE LET alarm_data == simulate_rest_call(device_name, ans)
             active_alarms == Get(alarm_data, "active_alarms", <<>>)
         IN /\ defects' = defects
            /\ test_results' = Append(test_results,
                   IF SelectSeq(active_alarms, LacksMessage) # <<>>
                   THEN error_result(test_name, "'message'")
                   ELSE [test_name |-> test_name, device |-> device_name,
                         status |-> alarm_status(active_alarms),
                         active_alarms |-> active_alarms,
                         alarm_count |-> Len(active_alarms)])

(***************************************************************************)
(* What the adapter may answer to each check of a registered device with n *)
(* expected interfaces.  The simulator's own answer is one of them.        *)
(***************************************************************************)
NoAnswer == Return(<<>>)   \* the adapter is not asked (unregistered name)

ConnectivityAnswers ==
    {Return([response_time |-> rt, port_open |-> po]) :
        rt \in {0, 12}, po \in BOOLEAN}
    \cup {Raise("ping timed out")}

StatusAnswers(n) ==
    {Return(simulated_status(n))}
    \cup {Return([simulated_status(n) EXCEPT !.cpu_usage = c,
                     !.memory_usage = m, !.temperature = t]) :
            c \in {cpu_usage_threshold, cpu_usage_threshold + 1},
            m \in {memory_usage_threshold, memory_usage_threshold + 1},
            t \in {temperature_threshold, temperature_threshold + 1}}
    \cup {Raise("status request timed out")}

all_up(n) ==
    [interfaces |->
        [i \in 1..n |-> [name |-> "eth" \o ToString(i - 1), status |-> "up",
                          speed |-> "10Gbps", duplex |-> "full"]]]

InterfaceAnswers(n) ==
    {Return(simulated_interfaces(n)), Return(all_up(n)), Return(all_up(n - 1)),
     Return(simulated_interfaces(n + 1)),
     Raise("connection refused")}

AlarmAnswers(n) ==
    {Return(simulated_alarms(n)), Return(simulated_alarms(4)),
     Return([active_alarms |-> <<>>]),
     Raise("alarm request timed out")}

Checks == <<"connectivity", "status", "interface", "alarm">>

Answers(check, device_name) ==
    IF ~Registered(device_name) THEN {NoAnswer}
    ELSE LET n == device_configs[device_name].expected_interfaces IN
         CASE check = "connectivity" -> ConnectivityAnswers
           [] check = "status" -> StatusAnswers(n)
           [] check = "interface" -> InterfaceAnswers(n)
           [] check = "alarm" -> AlarmAnswers(n)

\* The answers drawn inside a suite run: the simulator's answer, a call that
\* raises and, for the connectivity and interface checks, an answer of the
\* other verdict.  The full sets are drawn when a check is called directly.
SuiteAnswers(check, device_name) ==
    IF ~Registered(device_name) THEN {NoAnswer}
    ELSE LET n == device_configs[device_name].expected_interfaces IN
         CASE check = "connectivity" ->
                {Return([response_time |-> 12, port_open |-> TRUE]),
                 Return([response_time |-> 12, port_open |-> FALSE]),
                 Raise("ping timed out")}
           [] check = "status" ->
                {Return(simulated_status(n)), Raise("status request timed out")}
           [] check = "interface" ->
                {Return(simulated_interfaces(n)), Return(all_up(n)),
                 Raise("connection refused")}
           [] check = "alarm" ->
                {Return(simulated_alarms(n)), Raise("alarm request timed out")}

(***************************************************************************)
(* Actions.                                                                *)
(***************************************************************************)
NoCall == [check |-> "none", device |-> "", ans |-> NoAnswer, nres |-> 0, ndef |-> 0]
NoRun == [device_names |-> <<>>, idx |-> 0, nres |-> 0, ndef |-> 0]

Threads == 1..NumThreads
ThreadReady == [at |-> "ready", device |-> "", defect |-> <<>>]

\* __init__ without a configuration file.
Init ==
    /\ device_configs = default_devices
    /\ test_results = <<>>
    /\ defects = <<>>
    /\ pc = "idle"
    /\ run = NoRun
    /\ call = NoCall
    /\ threads = [t \in Threads |-> ThreadReady]
    /\ reports = <<>>
    /\ config_file = None

\* One invocation of a check method, by the caller or by run_test_suite.
Invoke(check, device_name, ans) ==
    /\ CASE check = "connectivity" -> test_device_connectivity(device_name, ans)
         [] check = "status" -> test_device_status(device_name, ans)
         [] check = "interface" -> test_interface_status(device_name, ans)
         [] check = "alarm" -> test_alarm_monitoring(device_name, ans)
    /\ call' = [check |-> check, device |-> device_name, ans |-> ans,
                nres |-> Len(test_results), ndef |-> Len(defects)]
    /\ reports' = <<>>
    /\ UNCHANGED <<device_configs, threads, config_file>>

\* A check method called directly, outside a run.
Direct(check) ==
    /\ pc = "idle"
    /\ Len(test_results) < MaxDirect
    /\ \E device_name \in DeviceNames :
        \E ans \in Answers(check, device_name) :
            Invoke(check, device_name, ans)
    /\ UNCHANGED <<pc, run>>

CallConnectivity == Direct("connectivity")
CallStatus == Direct("status")
CallInterface == Direct("interface")
CallAlarm == Direct("alarm")

\* list(self.device_configs.keys())
registry_keys == SelectSeq(key_order, Registered)

RECURSIVE SeqsUpTo(_, _)
SeqsUpTo(S, n) ==
    IF n = 0 THEN {<<>>}
    ELSE LET shorter == SeqsUpTo(S, n - 1) IN
         shorter \cup {Append(q, x) : q \in shorter, x \in S}

\* The arguments of run_test_suite: None, or a list of names.  (With an
\* empty list the loop body never runs and the call changes nothing.)
RunArguments ==
    {[is_none |-> TRUE, list |-> <<>>]}
    \cup {[is_none |-> FALSE, list |-> q] :
            q \in SeqsUpTo(DeviceNames, MaxRunLen) \ {<<>>}}

\* Mutation: the interface check is called before the status check.
NextStep_swapped(step) ==
    CASE step = "connectivity" -> "interface"
      [] step = "interface" -> "status"
      [] step = "status" -> "alarm"
      [] step = "alarm" -> "sleep"

\* The order in which the four checks of one device are called, then the pause.
NextStep(step) ==
    CASE step = "connectivity" -> "status"
      [] step = "status" -> "interface"
      [] step = "interface" -> "alarm"
      [] step = "alarm" -> "sleep"

\* run_test_suite is entered: the device list is fixed, the loop starts.
RunTestSuite ==
    /\ pc = "idle"
    /\ \E arg \in RunArguments :
        LET device_names == IF arg.is_none THEN registry_keys ELSE arg.list IN
        /\ device_names # <<>>
        /\ Len(test_results) + 4 * Len(device_names) <= MaxResults
        /\ run' = [device_names |-> device_names, idx |-> 1,
                   nres |-> Len(test_results), ndef |-> Len(defects)]
    /\ pc' = "connectivity"
    /\ call' = NoCall
    /\ reports' = <<>>
    /\ UNCHANGED <<device_configs, test_results, defects, threads, config_file>>

\* Mutation: an error raised by the adapter leaves the loop.
RunCheck_aborting(check) ==
    /\ pc = check
    /\ \E ans \in SuiteAnswers(check, run.device_names[run.idx]) :
        IF ans.raises
        THEN /\ pc' = "idle"
             /\ run' = NoRun
             /\ call' = NoCall
             /\ UNCHANGED <<device_configs, test_results, defects, threads,
                            reports, config_file>>
        ELSE /\ Invoke(check, run.device_names[run.idx], ans)
             /\ pc' = NextStep(check)
             /\ UNCHANGED run

\* The loop body calls the next check of the current device.
RunCheck(check) ==
    /\ pc = check
    /\ \E ans \in SuiteAnswers(check, run.device_names[run.idx]) :
        Invoke(check, run.device_names[run.idx], ans)
    /\ pc' = NextStep(check)
    /\ UNCHANGED run

RunConnectivity == RunCheck("connectivity")
RunStatus == RunCheck("status")
RunInterface == RunCheck("interface")
RunAlarm == RunCheck("alarm")

\* time.sleep(1), then the next device; after the last one the call returns.
RunSleep ==
    /\ pc = "sleep"
    /\ IF run.idx < Len(run.device_names)
       THEN /\ run' = [run EXCEPT !.idx = run.idx + 1]
            /\ pc' = "connectivity"
       ELSE /\ run' = NoRun
            /\ pc' = "idle"
    /\ call' = NoCall
    /\ UNCHANGED <<device_configs, test_results, defects, threads, reports,
                   config_file>>

Next ==
    \/ CallConnectivity
    \/ CallStatus
    \/ CallInterface
    \/ CallAlarm
    \/ RunTestSuite
    \/ RunConnectivity
    \/ RunStatus
    \/ RunInterface
    \/ RunAlarm
    \/ RunSleep

Spec == Init /\ [][Next]_vars

\* __init__ with any of the config_file arguments.
InitConfig ==
    /\ config_file \in ConfigArguments
    /\ device_configs = device_configs_after_init(config_file)
    /\ test_results = <<>>
    /\ defects = <<>>
    /\ pc = "idle"
    /\ run = NoRun
    /\ call = NoCall
    /\ threads = [t \in Threads |-> ThreadReady]
    /\ reports = <<>>

\* run_test_suite on its own.  Once entered, the loop is sequential code and
\* every call in its body returns, so each of its steps is taken when it is
\* enabled; whether run_test_suite is called at all is up to the caller.
NextRun ==
    \/ RunTestSuite
    \/ RunConnectivity
    \/ RunStatus
    \/ RunInterface
    \/ RunAlarm
    \/ RunSleep

LoopStep ==
    \/ RunConnectivity
    \/ RunStatus
    \/ RunInterface
    \/ RunAlarm
    \/ RunSleep

SpecRun == Init /\ [][NextRun]_vars /\ WF_vars(LoopStep)

\* Runs on an instance constructed with any of the config_file arguments.
SpecConfig == InitConfig /\ [][NextRun]_vars

(***************************************************************************)
(* Several threads calling checks on one instance.  The code takes no      *)
(* lock: create_defect reads len(self.defects) when it formats the         *)
(* identifier and appends the record later, and another thread may run in  *)
(* between.  Each thread runs the connectivity check of a registered       *)
(* device whose answer fails policy: the defect's identifier is computed,  *)
(* the defect is appended, the outcome is appended.                        *)
(***************************************************************************)
\* defect_id = f"DEF-{len(self.defects) + 1:04d}" and the record is built.
ThreadFormatsId(t) ==
    /\ threads[t].at = "ready"
    /\ Len(test_results) + Cardinality({u \in Threads : threads[u].at # "ready"})
          < MaxConcurrentResults
    /\ \E device_name \in DOMAIN device_configs :
        threads' = [threads EXCEPT ![t] =
            [at |-> "append", device |-> device_name,
             defect |-> new_defect(defect_id_for(Len(defects)), device_name,
                                   "connectivity",
                                   "Connectivity failed - device unreachable")]]
    /\ UNCHANGED <<device_configs, test_results, defects, pc, run, call,
                   reports, config_file>>

\* self.defects.append(defect)
ThreadAppendsDefect(t) ==
    /\ threads[t].at = "append"
    /\ defects' = Append(defects, threads[t].defect)
    /\ threads' = [threads EXCEPT ![t].at = "record"]
    /\ UNCHANGED <<device_configs, test_results, pc, run, call, reports,
                   config_file>>

\* self.test_results.append(result)
ThreadRecordsResult(t) ==
    /\ threads[t].at = "record"
    /\ test_results' = Append(test_results,
           [test_name |-> TestName("connectivity", threads[t].device),
            device |-> threads[t].device, status |-> "FAILED",
            response_time_ms |-> 0, port_accessible |-> FALSE,
            error |-> "Connectivity failed - device unreachable"])
    /\ threads' = [threads EXCEPT ![t] = ThreadReady]
    /\ UNCHANGED <<device_configs, defects, pc, run, call, reports,
                   config_file>>

FormatsId == \E t \in Threads : ThreadFormatsId(t)
AppendsDefect == \E t \in Threads : ThreadAppendsDefect(t)
RecordsResult == \E t \in Threads : ThreadRecordsResult(t)

NextConcurrent ==
    \/ FormatsId
    \/ AppendsDefect
    \/ RecordsResult

SpecConcurrent == Init /\ [][NextConcurrent]_vars

(***************************************************************************)
(* The checks called one by one with a wider choice of adapter answers:    *)
(* interface names and status values of any wording, alarms of any         *)
(* severity and number.                                                    *)
(***************************************************************************)
\* n interfaces, all up but the last, which has the given name and status.
with_last(n, name, status) ==
    [interfaces |->
        [i \in 1..n |->
            [name |-> IF i < n THEN "eth" \o ToString(i - 1) ELSE name,
             status |-> IF i < n THEN "up" ELSE status,
             speed |-> "10Gbps", duplex |-> "full"]]]

WideInterfaceAnswers(n) ==
    InterfaceAnswers(n)
    \cup {Return(with_last(n, "unreachable0", "down")),
          Return(with_last(n, "eth9", "degraded")),
          Return(with_last(n, "eth9", "DOWN")),
          Return(with_last(n, "downlink0", "testing")),
          Return(with_last(n + 1, "eth9", "admin-down"))}

WideAlarmAnswers(n) ==
    AlarmAnswers(n)
    \cup {Return([active_alarms |->
            <<[severity |-> "critical", message |-> "Loss of signal",
               timestamp |-> "2025-09-26T10:31:00Z"],
              [severity |-> "major", message |-> "Interface eth1 down",
               timestamp |-> "2025-09-26T10:32:00Z"]>>])}

WideAnswers(check, device_name) ==
    IF ~Registered(device_name) THEN {NoAnswer}
    ELSE LET n == device_configs[device_name].expected_interfaces IN
         CASE check = "connectivity" -> ConnectivityAnswers
           [] check = "status" -> StatusAnswers(n)
           [] check = "interface" -> WideInterfaceAnswers(n)
           [] check = "alarm" -> WideAlarmAnswers(n)

Check(check) ==
    /\ pc = "idle"
    /\ Len(test_results) < MaxChecks
    /\ \E device_name \in DeviceNames :
        \E ans \in WideAnswers(check, device_name) :
            Invoke(check, device_name, ans)
    /\ UNCHANGED <<pc, run>>

CheckConnectivity == Check("connectivity")
CheckStatus == Check("status")
CheckInterface == Check("interface")
CheckAlarm == Check("alarm")

NextChecks ==
    \/ CheckConnectivity
    \/ CheckStatus
    \/ CheckInterface
    \/ CheckAlarm

SpecChecks == Init /\ [][NextChecks]_vars

(***************************************************************************)
(* create_defect called by itself, with categories and descriptions of any *)
(* wording: determine_severity applied to each pair.                       *)
(***************************************************************************)
Categories == {"connectivity", "performance", "interface", "alarm"}

Descriptions ==
    {"Connectivity failed - device unreachable",
     "Interface eth3 is down",
     "Interface eth3 is DOWN",
     "Interface eth0 is down, peer unreachable",
     "Host Unreachable",
     "High CPU usage: 80.1%",
     "Expected 4 interfaces, found 3",
     "Device not found"}

CallCreateDefect ==
    /\ pc = "idle"
    /\ Len(defects) < MaxCreated
    /\ \E device_name \in {"optical_device_1", UnknownDevice} :
        \E category \in Categories :
            \E description \in Descriptions :
                /\ defects' = create_defect(defects, device_name, category,
                                            description)
                /\ call' = [check |-> "create_defect", device |-> device_name,
                            ans |-> NoAnswer, nres |-> Len(test_results),
                            ndef |-> Len(defects)]
    /\ reports' = <<>>
    /\ UNCHANGED <<device_configs, test_results, pc, run, threads, config_file>>

NextSeverity == CallCreateDefect

SpecSeverity == Init /\ [][NextSeverity]_vars

(***************************************************************************)
(* The report.  generate_test_report reads the two lists and stamps the    *)
(* time of the call; reports holds the reports returned since the last     *)
(* check, so that two consecutive calls can be compared.                   *)
(***************************************************************************)
MaxReported == 3   \* outcomes recorded in SpecReport
MaxReports == 2    \* consecutive calls of generate_test_report

\* datetime.now().isoformat() at the time of a call.
Timestamps == {"2025-09-26T10:30:00.000125", "2025-09-26T10:30:00.000348"}

HasStatus(results, status) == {k \in 1..Len(results) : results[k].status = status}

\* len([t for t in self.test_results if t['status'] == 'PASSED'])
passed_tests(results) == Cardinality(HasStatus(results, "PASSED"))

\* Mutation: every outcome that did not pass counts as failed.
failed_tests_not_passed(results) ==
    Cardinality({k \in 1..Len(results) : results[k].status # "PASSED"})

\* len([t for t in self.test_results if t['status'] == 'FAILED'])
failed_tests(results) == Cardinality(HasStatus(results, "FAILED"))

\* len([t for t in self.test_results if t['status'] == 'ERROR'])
error_tests(results) == Cardinality(HasStatus(results, "ERROR"))

\* Mutation: the digits after the first decimal are cut off, not rounded.
pass_rate_truncating(passed, total_tests) ==
    IF total_tests > 0
    THEN FormatTenths((1000 * passed) \div total_tests) \o "%"
    ELSE "0%"

\* f"{(passed_tests/total_tests*100):.1f}%" if total_tests > 0 else "0%".
\* The format rounds to the nearest tenth; a quotient half way between two
\* tenths needs a total that is a multiple of 16, beyond the totals here.
pass_rate(passed, total_tests) ==
    IF total_tests > 0
    THEN FormatTenths((2 * 1000 * passed + total_tests) \div (2 * total_tests)) \o "%"
    ELSE "0%"

generate_test_report(results, defs, now) ==
    [test_summary |->
        [total_tests |-> Len(results),
         passed |-> passed_tests(results),
         failed |-> failed_tests(results),
         errors |-> error_tests(results),
         pass_rate |-> pass_rate(passed_tests(results), Len(results))],
     test_results |-> results,
     defects_found |-> Len(defs),
     defect_details |-> defs,
     report_generated |-> now]

\* Mutation: the outcomes are handed over to the report and the list is reset.
GenerateReport_consuming ==
    /\ pc = "idle"
    /\ Len(reports) < MaxReports
    /\ \E now \in Timestamps :
        reports' = Append(reports, generate_test_report(test_results, defects, now))
    /\ test_results' = <<>>
    /\ UNCHANGED <<device_configs, defects, pc, run, call, threads, config_file>>

\* generate_test_report is called; the caller keeps the report.
GenerateReport ==
    /\ pc = "idle"
    /\ Len(reports) < MaxReports
    /\ \E now \in Timestamps :
        reports' = Append(reports, generate_test_report(test_results, defects, now))
    /\ UNCHANGED <<device_configs, test_results, defects, pc, run, call, threads,
                   config_file>>

\* The checks that fill the lists a report reads: one registered device and
\* one unregistered name, with the answers of a suite run.
ReportedDevices == {"microwave_device_1", UnknownDevice}

Reported(check) ==
    /\ pc = "idle"
    /\ Len(test_results) < MaxReported
    /\ \E device_name \in ReportedDevices :
        \E ans \in SuiteAnswers(check, device_name) :
            Invoke(check, device_name, ans)
    /\ UNCHANGED <<pc, run>>

ReportedConnectivity == Reported("connectivity")
ReportedStatus == Reported("status")
ReportedInterface == Reported("interface")
ReportedAlarm == Reported("alarm")

NextReport ==
    \/ ReportedConnectivity
    \/ ReportedStatus
    \/ ReportedInterface
    \/ ReportedAlarm
    \/ GenerateReport

SpecReport == Init /\ [][NextReport]_vars

(***************************************************************************)
(* Vocabulary of the properties.                                           *)
(***************************************************************************)
Last(q) == q[Len(q)]

IsPrefix(p, q) == Len(p) <= Len(q) /\ SubSeq(q, 1, Len(p)) = p

\* The defects the last check invocation created.
NewDefects == SubSeq(defects, call.ndef + 1, Len(defects))

\* A check has been invoked and the adapter was asked (the device is registered).
Asked(check) ==
    /\ call.check = check
    /\ Registered(call.device)

DigitValue ==
    [c \in {"0", "1", "2", "3", "4", "5", "6", "7", "8", "9"} |->
        CASE c = "0" -> 0 [] c = "1" -> 1 [] c = "2" -> 2 [] c = "3" -> 3
          [] c = "4" -> 4 [] c = "5" -> 5 [] c = "6" -> 6 [] c = "7" -> 7
          [] c = "8" -> 8 [] c = "9" -> 9]

\* The number a string of decimal digits writes; -1 if it is not one.
RECURSIVE ParseNat(_)
ParseNat(s) ==
    IF Len(s) = 0 THEN -1
    ELSE LET c == SubSeq(s, Len(s), Len(s)) IN
         IF c \notin DOMAIN DigitValue THEN -1
         ELSE IF Len(s) = 1 THEN DigitValue[c]
         ELSE LET rest == ParseNat(SubSeq(s, 1, Len(s) - 1)) IN
              IF rest < 0 THEN -1 ELSE 10 * rest + DigitValue[c]

\* The k-th defect of a list carries "DEF-" and k written with four digits.
WellNumbered(defs) ==
    \A k \in 1..Len(defs) :
        LET id == defs[k].defect_id IN
        /\ Len(id) = 8
        /\ SubSeq(id, 1, 4) = "DEF-"
        /\ ParseNat(SubSeq(id, 5, 8)) = k

\* How many checks of the current device a run has made when it stands at step.
StepIndex(step) ==
    CASE step = "connectivity" -> 0
      [] step = "status" -> 1
      [] step = "interface" -> 2
      [] step = "alarm" -> 3
      [] step = "sleep" -> 4

\* The outcomes and the defects the run in progress has appended so far.
RunResults == SubSeq(test_results, run.nres + 1, Len(test_results))
RunDefects == SubSeq(defects, run.ndef + 1, Len(defects))

IsOutcomeOf(r, device_name) ==
    \E i \in 1..Len(Checks) : r.test_name = TestName(Checks[i], device_name)

(***************************************************************************)
(* C1.  A device name given to run_test_suite that the registry does not   *)
(* hold gets exactly one outcome, of status ERROR with the description     *)
(* "Device configuration not found"; no defect is created for it and its   *)
(* status, interface and alarm checks are not run.  Stated when the run    *)
(* has finished with such a device.  The code does otherwise.              *)
(***************************************************************************)
C1_UnknownDeviceSingleError ==
    (pc = "sleep" /\ ~Registered(run.device_names[run.idx])) =>
        LET name == run.device_names[run.idx]
            times == Cardinality({i \in 1..run.idx : run.device_names[i] = name})
            mine == {j \in 1..Len(RunResults) : IsOutcomeOf(RunResults[j], name)}
        IN /\ Cardinality(mine) = times
           /\ \A j \in mine :
                /\ RunResults[j].test_name = TestName("connectivity", name)
                /\ RunResults[j].status = "ERROR"
                /\ RunResults[j].error = "Device configuration not found"
           /\ \A k \in 1..Len(RunDefects) : RunDefects[k].device # name

(***************************************************************************)
(* C2.  Every outcome of status FAILED comes with at least one defect for  *)
(* the same device, created by the same check invocation.  The code        *)
(* records a FAILED outcome without a defect.                              *)
(***************************************************************************)
C2_FailedHasDefect ==
    (call.check # "none" /\ Last(test_results).status = "FAILED") =>
        /\ Len(NewDefects) >= 1
        /\ \A k \in 1..Len(NewDefects) : NewDefects[k].device = call.device

(***************************************************************************)
(* C3.  A check invocation creates defects only if the outcome it records  *)
(* is FAILED: an invocation whose outcome is ERROR or PASSED leaves the    *)
(* defect list as it was.                                                  *)
(***************************************************************************)
C3_DefectsOnlyFromFailed ==
    call.check # "none" =>
        /\ Len(test_results) = call.nres + 1
        /\ Len(defects) >= call.ndef
        /\ Last(test_results).status \in {"PASSED", "ERROR"}
              => Len(defects) = call.ndef
        /\ Len(defects) > call.ndef => Last(test_results).status = "FAILED"

C3_Witness ==
    /\ Asked("status")
    /\ call.ans.raises
    /\ Last(test_results).status = "ERROR"
    /\ call.ndef >= 1
    /\ Len(defects) = call.ndef

(***************************************************************************)
(* C4.  Under sequential use the k-th defect ever created carries the      *)
(* identifier "DEF-" followed by k zero-padded to 4 digits, so identifiers *)
(* are pairwise distinct and increase along the list.                      *)
(***************************************************************************)
C4_SequentialIds ==
    /\ WellNumbered(defects)
    /\ \A j, k \in 1..Len(defects) :
          j < k => /\ defects[j].defect_id # defects[k].defect_id
                   /\ ParseNat(SubSeq(defects[j].defect_id, 5, 8))
                        < ParseNat(SubSeq(defects[k].defect_id, 5, 8))

C4_Witness ==
    /\ pc = "sleep"
    /\ run.ndef >= 2
    /\ Len(defects) >= run.ndef + 2
    /\ Last(defects).defect_id = "DEF-0004"

(***************************************************************************)
(* C5.  When threads interleave their calls of create_defect (the read of  *)
(* the defect count, then the append), identifiers stay unique and         *)
(* sequential.  The code, which takes no lock, gives two defects the same  *)
(* identifier.                                                             *)
(***************************************************************************)
C5_ConcurrentIdsSequential ==
    /\ \A j, k \in 1..Len(defects) :
          j # k => defects[j].defect_id # defects[k].defect_id
    /\ \A k \in 1..Len(defects) :
          ParseNat(SubSeq(defects[k].defect_id, 5, Len(defects[k].defect_id))) = k

(***************************************************************************)
(* C6.  A run calls, for each device of its list in the order of the list, *)
(* the connectivity, status, interface and alarm check in that order, each *)
(* appending exactly one outcome whatever the earlier outcomes were: at    *)
(* every point of a run the outcomes it has appended are exactly those of  *)
(* the checks made so far, in the order they were made.                    *)
(***************************************************************************)
C6_RunOrder ==
    pc # "idle" =>
        LET made == 4 * (run.idx - 1) + StepIndex(pc) IN
        /\ run.idx \in 1..Len(run.device_names)
        /\ Len(RunResults) = made
        /\ \A j \in 1..made :
              RunResults[j].test_name =
                  TestName(Checks[((j - 1) % 4) + 1],
                           run.device_names[((j - 1) \div 4) + 1])

C6_Witness ==
    /\ pc = "sleep"
    /\ run.idx = 2
    /\ Registered(run.device_names[1])
    /\ Registered(run.device_names[2])
    /\ run.device_names[1] # run.device_names[2]
    /\ Len(RunResults) = 8
    /\ RunResults[1].status = "FAILED"
    /\ RunResults[2].status = "ERROR"
    /\ RunResults[3].status = "FAILED"

(***************************************************************************)
(* C7.  If the adapter call of a check raises, the check appends exactly   *)
(* one outcome, of status ERROR with the exception's text, creates no      *)
(* defect, and a run goes on with the next check: a run that has recorded  *)
(* an ERROR outcome has still made every check up to where it stands.      *)
(***************************************************************************)
C7_AdapterErrorIsolated ==
    /\ (call.check # "none" /\ Registered(call.device) /\ call.ans.raises) =>
          /\ Len(test_results) = call.nres + 1
          /\ Last(test_results) =
                [test_name |-> TestName(call.check, call.device),
                 status |-> "ERROR", error |-> call.ans.message]
          /\ Len(defects) = call.ndef
          /\ pc # "idle" => StepIndex(pc) = StepIndex(call.check) + 1
    /\ (pc # "idle" /\ \E j \in 1..Len(RunResults) : RunResults[j].status = "ERROR") =>
          Len(RunResults) = 4 * (run.idx - 1) + StepIndex(pc)

C7_Witness ==
    /\ pc = "sleep"
    /\ run.idx = 2
    /\ Len(RunResults) = 8
    /\ RunResults[1].status = "ERROR"
    /\ RunResults[3].status = "ERROR"
    /\ RunResults[4].status = "PASSED"
    /\ RunResults[5].status = "PASSED"

(***************************************************************************)
(* C8.  Every step, and so every further call of run_test_suite, only      *)
(* appends: the outcomes and defects that existed before the step remain,  *)
(* unchanged and in order, as a prefix of those after it.                  *)
(***************************************************************************)
C8_AppendOnly ==
    [][/\ IsPrefix(test_results, test_results')
       /\ IsPrefix(defects, defects')]_vars

C8_Witness ==
    /\ pc = "sleep"
    /\ run.nres >= 4
    /\ run.ndef >= 1
    /\ Len(RunResults) = 4
    /\ Len(RunDefects) >= 1

(***************************************************************************)
(* C9.  Connectivity check of a registered device: if the response time is *)
(* above 0 and the port is open the outcome is PASSED and no defect is     *)
(* created; otherwise the outcome is FAILED and exactly one defect is      *)
(* created, of category connectivity and severity CRITICAL, described      *)
(* "Connectivity failed - device unreachable".                             *)
(***************************************************************************)
C9_ConnectivityDecision ==
    (Asked("connectivity") /\ ~call.ans.raises) =>
        IF call.ans.data.response_time > 0 /\ call.ans.data.port_open = TRUE
        THEN /\ Last(test_results).status = "PASSED"
             /\ NewDefects = <<>>
        ELSE /\ Last(test_results).status = "FAILED"
             /\ Len(NewDefects) = 1
             /\ NewDefects[1].device = call.device
             /\ NewDefects[1].category = "connectivity"
             /\ NewDefects[1].severity = "CRITICAL"
             /\ NewDefects[1].description = "Connectivity failed - device unreachable"

C9_Witness ==
    /\ Asked("connectivity")
    /\ ~call.ans.raises
    /\ call.ans.data.response_time = 0
    /\ call.ans.data.port_open = TRUE
    /\ Last(test_results).status = "FAILED"
    /\ Len(NewDefects) = 1

(***************************************************************************)
(* C10.  Status check of a payload the adapter returned: with CPU at most  *)
(* 80.0, memory at most 90.0 and temperature at most 60.0 the outcome is   *)
(* PASSED and no defect is created; otherwise the outcome is FAILED and    *)
(* one defect is created for each metric strictly above its threshold and  *)
(* for no other, each of category performance and severity MINOR.          *)
(***************************************************************************)
C10_StatusDecision ==
    (Asked("status") /\ ~call.ans.raises) =>
        LET d == call.ans.data
            cpu == d.cpu_usage > 800
            mem == d.memory_usage > 900
            tmp == d.temperature > 600
            breaches == (IF cpu THEN 1 ELSE 0) + (IF mem THEN 1 ELSE 0)
                        + (IF tmp THEN 1 ELSE 0)
            Names(word) == \E k \in 1..Len(NewDefects) :
                              Contains(word, NewDefects[k].description)
        IN /\ Last(test_results).status = (IF breaches = 0 THEN "PASSED" ELSE "FAILED")
           /\ Len(NewDefects) = breaches
           /\ cpu <=> Names("CPU")
           /\ mem <=> Names("memory")
           /\ tmp <=> Names("temperature")
           /\ \A k \in 1..Len(NewDefects) :
                 /\ NewDefects[k].device = call.device
                 /\ NewDefects[k].category = "performance"
                 /\ NewDefects[k].severity = "MINOR"

C10_Witness ==
    /\ Asked("status")
    /\ ~call.ans.raises
    /\ call.ans.data.cpu_usage = 800
    /\ call.ans.data.memory_usage = 901
    /\ call.ans.data.temperature = 601
    /\ Last(test_results).status = "FAILED"
    /\ Len(NewDefects) = 2

\* The text mentions the word, in any letter case.
Mentions(word, text) == Contains(word, lower(text))

\* The number of elements of a sequence that satisfy Test.
CountIn(q, Test(_)) == Cardinality({i \in 1..Len(q) : Test(q[i])})

StatusIsNotUp(iface) == iface.status # "up"

(***************************************************************************)
(* C11.  Interface check of a list the adapter returned: PASSED with no    *)
(* defect exactly when the list has expected_interfaces entries and every  *)
(* status is "up"; otherwise FAILED with one defect of category interface  *)
(* per issue (one for a count mismatch, one per interface not "up").  As   *)
(* claimed, each defect is MAJOR if its text mentions "down" and MINOR     *)
(* otherwise, whatever the interface name: C11_SeverityDownOrMinor, which  *)
(* the code violates.  As amended, a defect whose text mentions            *)
(* "unreachable" is CRITICAL, and the rule of the claim holds for the      *)
(* others: C11_InterfaceDecision.                                          *)
(***************************************************************************)
InterfaceVerdict(Severity(_)) ==
    (Asked("interface") /\ ~call.ans.raises) =>
        LET interfaces == call.ans.data.interfaces
            expected == device_configs[call.device].expected_interfaces
            mismatch == Len(interfaces) # expected
            notup == CountIn(interfaces, StatusIsNotUp)
        IN IF ~mismatch /\ notup = 0
           THEN /\ Last(test_results).status = "PASSED"
                /\ NewDefects = <<>>
           ELSE /\ Last(test_results).status = "FAILED"
                /\ Len(NewDefects) = (IF mismatch THEN 1 ELSE 0) + notup
                /\ \A k \in 1..Len(NewDefects) :
                      /\ NewDefects[k].device = call.device
                      /\ NewDefects[k].category = "interface"
                      /\ NewDefects[k].severity = Severity(NewDefects[k].description)

DownOrMinor(text) == IF Mentions("down", text) THEN "MAJOR" ELSE "MINOR"

UnreachableDownOrMinor(text) ==
    IF Mentions("unreachable", text) THEN "CRITICAL" ELSE DownOrMinor(text)

C11_SeverityDownOrMinor == InterfaceVerdict(DownOrMinor)

C11_InterfaceDecision == InterfaceVerdict(UnreachableDownOrMinor)

C11_Witness ==
    /\ Asked("interface")
    /\ ~call.ans.raises
    /\ Last(test_results).status = "FAILED"
    /\ Len(NewDefects) = 1
    /\ NewDefects[1].description = "Interface unreachable0 is down"
    /\ NewDefects[1].severity = "CRITICAL"

(***************************************************************************)
(* C12.  Alarm check: for every list of active alarms the adapter returns, *)
(* of any length and any severities, the outcome is PASSED and carries the *)
(* list and its length; no alarm check, whatever the adapter does, records *)
(* FAILED or changes the defect list.                                      *)
(***************************************************************************)
C12_AlarmAlwaysPassed ==
    /\ (Asked("alarm") /\ ~call.ans.raises) =>
          /\ Last(test_results).status = "PASSED"
          /\ Last(test_results).active_alarms = call.ans.data.active_alarms
          /\ Last(test_results).alarm_count = Len(call.ans.data.active_alarms)
    /\ call.check = "alarm" =>
          /\ Last(test_results).test_name = TestName("alarm", call.device)
          /\ Last(test_results).status # "FAILED"
          /\ Len(defects) = call.ndef

C12_Witness ==
    /\ Asked("alarm")
    /\ ~call.ans.raises
    /\ Len(call.ans.data.active_alarms) = 2
    /\ call.ans.data.active_alarms[1].severity = "critical"
    /\ Last(test_results).status = "PASSED"
    /\ Last(test_results).alarm_count = 2
    /\ call.ndef >= 1

(***************************************************************************)
(* C13.  The severity of a defect is a function of its category and        *)
(* description alone, by the first rule that matches: CRITICAL if the      *)
(* category is connectivity or the description mentions "unreachable";     *)
(* else MAJOR if the category is interface and the description mentions    *)
(* "down"; else MINOR.  It is always one of the three.                     *)
(***************************************************************************)
SeverityByPrecedence(category, description) ==
    IF category = "connectivity" \/ Mentions("unreachable", description)
    THEN "CRITICAL"
    ELSE IF category = "interface" /\ Mentions("down", description)
    THEN "MAJOR"
    ELSE "MINOR"

C13_SeverityPrecedence ==
    /\ \A k \in 1..Len(defects) :
          /\ defects[k].severity \in {"CRITICAL", "MAJOR", "MINOR"}
          /\ defects[k].severity =
                SeverityByPrecedence(defects[k].category, defects[k].description)
    /\ \A j, k \in 1..Len(defects) :
          (/\ defects[j].category = defects[k].category
           /\ defects[j].description = defects[k].description)
             => defects[j].severity = defects[k].severity

C13_Witness ==
    /\ call.check = "create_defect"
    /\ Len(defects) = 2
    /\ defects[1].category = "interface"
    /\ defects[1].description = "Interface eth0 is down, peer unreachable"
    /\ defects[1].severity = "CRITICAL"
    /\ defects[2].category = "interface"
    /\ defects[2].description = "Interface eth3 is DOWN"
    /\ defects[2].severity = "MAJOR"

(***************************************************************************)
(* C14.  A status or interface check that identifies k issues appends      *)
(* exactly k defects, in the order of the issues and with the issue text   *)
(* as description, also when a defect of the same device, category and     *)
(* description exists already.                                             *)
(***************************************************************************)
C14_OneDefectPerIssue ==
    (call.check \in {"status", "interface"}
     /\ Last(test_results).status # "ERROR") =>
        LET issues == Last(test_results).issues IN
        /\ Len(NewDefects) = Len(issues)
        /\ \A k \in 1..Len(issues) :
              /\ NewDefects[k].description = issues[k]
              /\ NewDefects[k].device = call.device
              /\ NewDefects[k].category =
                    (IF call.check = "status" THEN "performance" ELSE "interface")

C14_Witness ==
    /\ call.check \in {"status", "interface"}
    /\ Len(NewDefects) >= 2
    /\ \A k \in 1..Len(NewDefects) :
          \E j \in 1..call.ndef :
              /\ defects[j].device = NewDefects[k].device
              /\ defects[j].category = NewDefects[k].category
              /\ defects[j].description = NewDefects[k].description
              /\ defects[j].defect_id # NewDefects[k].defect_id

(***************************************************************************)
(* C15.  A run that was entered reaches the end of its last device with    *)
(* four outcomes recorded for every name of its list, whatever the         *)
(* adapter answered, and then returns.                                     *)
(***************************************************************************)
AllProcessed ==
    /\ pc = "sleep"
    /\ run.idx = Len(run.device_names)
    /\ Len(RunResults) = 4 * Len(run.device_names)

C15_RunCompletes ==
    /\ (pc # "idle") ~> AllProcessed
    /\ AllProcessed ~> (pc = "idle")

C15_Witness ==
    /\ AllProcessed
    /\ Len(run.device_names) = MaxRunLen
    /\ \E i \in 1..Len(run.device_names) : ~Registered(run.device_names[i])
    /\ \E k \in 1..Len(RunResults) : RunResults[k].status = "ERROR"
    /\ \E k \in 1..Len(RunResults) : RunResults[k].status = "FAILED"

(***************************************************************************)
(* C16.  A call of generate_test_report leaves test_results, defects and   *)
(* the registry as they were, and the reports returned by calls with no    *)
(* check in between agree in every field but report_generated.             *)
(***************************************************************************)
WithoutTimestamp(report) ==
    [f \in DOMAIN report \ {"report_generated"} |-> report[f]]

ReportReturned == Len(reports') = Len(reports) + 1

C16_ReportIsPureRead ==
    [][ReportReturned =>
          /\ test_results' = test_results
          /\ defects' = defects
          /\ device_configs' = device_configs
          /\ \A i, j \in 1..Len(reports') :
                WithoutTimestamp(reports'[i]) = WithoutTimestamp(reports'[j])]_vars

C16_Witness ==
    /\ Len(reports) = 2
    /\ reports[1].report_generated # reports[2].report_generated
    /\ WithoutTimestamp(reports[1]) = WithoutTimestamp(reports[2])
    /\ Len(test_results) >= 2
    /\ Len(defects) >= 1

(***************************************************************************)
(* C17.  The pass rate of a report is "0%" when there is no outcome;       *)
(* otherwise it is a number with one decimal followed by "%", the tenth    *)
(* nearest to 100 * passed / total.  Two passed of three give "66.7%".     *)
(***************************************************************************)
IsPassed(r) == r.status = "PASSED"

\* The tenths a text "d...d.d%" writes; -1 if the text has another shape.
ParseRate(text) ==
    LET n == Len(text) IN
    IF n < 4 \/ SubSeq(text, n, n) # "%" \/ SubSeq(text, n - 2, n - 2) # "."
    THEN -1
    ELSE LET whole == ParseNat(SubSeq(text, 1, n - 3))
             tenth == ParseNat(SubSeq(text, n - 1, n - 1))
         IN IF whole < 0 \/ tenth < 0 THEN -1 ELSE 10 * whole + tenth

Distance(a, b) == IF a >= b THEN a - b ELSE b - a

C17_PassRate ==
    \A k \in 1..Len(reports) :
        LET total == Len(reports[k].test_results)
            passed == CountIn(reports[k].test_results, IsPassed)
            rate == reports[k].test_summary.pass_rate
        IN IF total = 0 THEN rate = "0%"
           ELSE /\ ParseRate(rate) >= 0
                /\ 2 * Distance(ParseRate(rate) * total, 1000 * passed) <= total
                /\ (total = 3 /\ passed = 2) => rate = "66.7%"

C17_Witness ==
    \E k \in 1..Len(reports) :
        /\ Len(reports[k].test_results) = 3
        /\ CountIn(reports[k].test_results, IsPassed) = 2
        /\ reports[k].test_summary.pass_rate = "66.7%"

(***************************************************************************)
(* C19.  Every recorded outcome has one of the statuses PASSED, FAILED,    *)
(* ERROR, and a report agrees with the lists it was made from: total_tests *)
(* is the number of outcomes, passed + failed + errors is total_tests, and *)
(* defects_found is the length of defect_details, the list of defects.     *)
(***************************************************************************)
C19_SummaryConsistent ==
    /\ \A k \in 1..Len(test_results) :
          test_results[k].status \in {"PASSED", "FAILED", "ERROR"}
    /\ \A k \in 1..Len(reports) :
          LET summary == reports[k].test_summary IN
          /\ summary.total_tests = Len(test_results)
          /\ summary.passed + summary.failed + summary.errors = summary.total_tests
          /\ reports[k].defect_details = defects
          /\ reports[k].defects_found = Len(reports[k].defect_details)

C19_Witness ==
    \E k \in 1..Len(reports) :
        /\ reports[k].test_summary.passed >= 1
        /\ reports[k].test_summary.failed >= 1
        /\ reports[k].test_summary.errors >= 1
        /\ reports[k].defects_found >= 1

(***************************************************************************)
(* C18.  Constructed without a configuration file, or with one that does   *)
(* not exist, cannot be read or is not JSON, the instance has the built-in *)
(* default devices as its registry.                                        *)
(***************************************************************************)
CannotBeLoaded(path) ==
    \/ path \notin DOMAIN Files
    \/ ~Files[path].readable
    \/ ~Files[path].is_json

C18_ConfigFallback ==
    (config_file = None \/ CannotBeLoaded(config_file)) =>
        device_configs = default_devices

C18_Witness ==
    /\ config_file \in {"truncated.json", "locked.json", "missing.json"}
    /\ AllProcessed
    /\ run.device_names = default_order
    /\ \A k \in 1..Len(RunResults) : "device" \in DOMAIN RunResults[k]

====
